---- MODULE Spec2Model ----
(***************************************************************************)
(* Budget-insights service (src/main.py): numeric normalisation, config    *)
(* resolution, required-column validation, grouped aggregation, VAT-basis  *)
(* flags and the /insights endpoint.                                       *)
(*                                                                         *)
(* Modelling conventions                                                   *)
(*  - A Python str is a sequence of one-character strings.  Column names   *)
(*    (dict keys of rows, values of the column map) are opaque names; the  *)
(*    code only hashes, compares and sorts them, and NameOrder gives their *)
(*    code-point order.                                                    *)
(*  - A finite Python float is an exact rational <<n, d>> (d > 0, lowest   *)
(*    terms); rounding of binary floating point is not modelled.  nan and  *)
(*    +/-inf are separate tagged values.                                   *)
(*  - A Python int is v * 10^e, so that integers beyond the float range    *)
(*    can be written down.                                                 *)
(*  - A dict whose iteration order matters is a sequence of <<key, value>> *)
(*    pairs in insertion order.                                            *)
(***************************************************************************)
EXTENDS Integers, Sequences, FiniteSets, TLC

\* ------------------------------------------------------------------ bounds
MaxStrLen == 3        \* longest string cell enumerated for to_number
MaxLabelLen == 4      \* longest label enumerated for short_label
MaxLenArg == 5        \* largest |max_len| enumerated for short_label

\* ------------------------------------------------------- exact rationals
RECURSIVE Gcd(_, _)
Gcd(a, b) == IF b = 0 THEN a ELSE Gcd(b, a % b)

Abs(i) == IF i < 0 THEN -i ELSE i

Rat(n, d) ==
  LET s == IF d < 0 THEN -1 ELSE 1
      g == Gcd(Abs(n), Abs(d))
  IN  <<(s * n) \div g, (s * d) \div g>>

RInt(i) == <<i, 1>>
RZero == <<0, 1>>
RAdd(a, b) == Rat(a[1] * b[2] + b[1] * a[2], a[2] * b[2])
RSub(a, b) == Rat(a[1] * b[2] - b[1] * a[2], a[2] * b[2])
RMul(a, b) == Rat(a[1] * b[1], a[2] * b[2])
RDiv(a, b) == Rat(a[1] * b[2], a[2] * b[1])
RLt(a, b) == a[1] * b[2] < b[1] * a[2]
RLe(a, b) == a[1] * b[2] <= b[1] * a[2]
RAbs(a) == <<Abs(a[1]), a[2]>>
RMax(a, b) == IF RLt(a, b) THEN b ELSE a     \* Python max(a, b): b only if b > a
\* int(x) of a finite float: truncation toward zero
RTrunc(a) == IF a[1] >= 0 THEN a[1] \div a[2] ELSE -((-a[1]) \div a[2])

RECURSIVE Pow10(_)
Pow10(k) == IF k = 0 THEN 1 ELSE 10 * Pow10(k - 1)

\* ------------------------------------------------------------ Python str
Digits == {"0", "1", "2", "3", "4", "5", "6", "7", "8", "9"}
DigitVal(c) ==
  CASE c = "0" -> 0 [] c = "1" -> 1 [] c = "2" -> 2 [] c = "3" -> 3
    [] c = "4" -> 4 [] c = "5" -> 5 [] c = "6" -> 6 [] c = "7" -> 7
    [] c = "8" -> 8 [] c = "9" -> 9
DigitChar(i) ==
  CASE i = 0 -> "0" [] i = 1 -> "1" [] i = 2 -> "2" [] i = 3 -> "3"
    [] i = 4 -> "4" [] i = 5 -> "5" [] i = 6 -> "6" [] i = 7 -> "7"
    [] i = 8 -> "8" [] i = 9 -> "9"

\* Characters outside ASCII are written as named one-character tokens.
EmDash == "U+2014"
EnDash == "U+2013"
Ellipsis == "U+2026"

\* s[:k] with Python's treatment of a negative or oversized stop index
Prefix(s, k) ==
  LET stop == IF k < 0 THEN (IF Len(s) + k < 0 THEN 0 ELSE Len(s) + k)
              ELSE (IF k > Len(s) THEN Len(s) ELSE k)
  IN  SubSeq(s, 1, stop)

RECURSIVE LStrip(_)
LStrip(s) == IF s # <<>> /\ Head(s) = " " THEN LStrip(Tail(s)) ELSE s
RECURSIVE RStrip(_)
RStrip(s) ==
  IF s # <<>> /\ s[Len(s)] = " " THEN RStrip(SubSeq(s, 1, Len(s) - 1)) ELSE s
\* str.strip()
Strip(s) == RStrip(LStrip(s))

\* s.replace(c, "")
Remove(s, c) == SelectSeq(s, LAMBDA x : x # c)
\* re.sub(r"[<en dash><em dash>]", "-", s)
DashToMinus(s) == [i \in 1..Len(s) |-> IF s[i] \in {EmDash, EnDash} THEN "-" ELSE s[i]]

AllDigits(s) == \A i \in 1..Len(s) : s[i] \in Digits
RECURSIVE DigitsVal(_)
DigitsVal(s) ==
  IF s = <<>> THEN 0 ELSE 10 * DigitsVal(SubSeq(s, 1, Len(s) - 1)) + DigitVal(s[Len(s)])

IndexOf(s, c) == IF \E i \in 1..Len(s) : s[i] = c
                 THEN CHOOSE i \in 1..Len(s) : s[i] = c /\ \A j \in 1..(i - 1) : s[j] # c
                 ELSE 0

\* str(i) of a non-negative / any int
RECURSIVE NatStr(_)
NatStr(i) == IF i < 10 THEN <<DigitChar(i)>> ELSE NatStr(i \div 10) \o <<DigitChar(i % 10)>>
IntStr(i) == IF i < 0 THEN <<"-">> \o NatStr(-i) ELSE NatStr(i)

\* ------------------------------------------------------------ JSON values
\* A cell / config value as the JSON body delivers it.
VNull == [t |-> "null"]
VBool(b) == [t |-> "bool", b |-> b]
VInt(v, e) == [t |-> "int", v |-> v, e |-> e]          \* the int v * 10^e
VFloat(k, r) == [t |-> "float", k |-> k, r |-> r]      \* k: fin | nan | inf | -inf
VStr(s) == [t |-> "str", s |-> s]
VNum(i) == VInt(i, 0)

\* A Python float value or a raised exception.
Fin(r) == [exc |-> "", k |-> "fin", r |-> r]
NonFin(k) == [exc |-> "", k |-> k, r |-> RZero]
Raise(e) == [exc |-> e, k |-> "fin", r |-> RZero]

DBL_MAX_10_EXP == 308

\* float(x) for an int x: OverflowError beyond the double range
IntToFloat(x) ==
  IF x.v = 0 THEN Fin(RZero)
  ELSE IF x.e > DBL_MAX_10_EXP THEN Raise("OverflowError")
  ELSE Fin(RInt(x.v * Pow10(x.e)))

\* str(x)
PyStr(x) ==
  CASE x.t = "null" -> <<"N", "o", "n", "e">>
    [] x.t = "bool" -> IF x.b THEN <<"T", "r", "u", "e">> ELSE <<"F", "a", "l", "s", "e">>
    [] x.t = "int" -> IntStr(x.v * Pow10(x.e))
    [] x.t = "str" -> x.s

Lower(c) ==
  CASE c = "N" -> "n" [] c = "A" -> "a" [] c = "I" -> "i" [] c = "F" -> "f"
    [] OTHER -> c
LowerStr(s) == [i \in 1..Len(s) |-> Lower(s[i])]

\* digits, optionally one ".", at least one digit: the decimal forms float() reads
DecimalForm(b) ==
  LET dot == IndexOf(b, ".")
      ip == IF dot = 0 THEN b ELSE SubSeq(b, 1, dot - 1)
      fp == IF dot = 0 THEN <<>> ELSE SubSeq(b, dot + 1, Len(b))
  IN  [ok |-> AllDigits(ip) /\ AllDigits(fp) /\ (ip # <<>> \/ fp # <<>>),
       ip |-> ip, fp |-> fp]

\* float(s) for a str s without surrounding blanks: sign, then a decimal
\* form or the words nan / inf / infinity (exponent and "_" forms are not
\* written with the characters used here).  ok = FALSE is ValueError.
ParseUnsigned(neg, w, d) ==
  IF w = <<"n", "a", "n">> THEN [ok |-> TRUE, f |-> NonFin("nan")]
  ELSE IF w \in {<<"i", "n", "f">>, <<"i", "n", "f", "i", "n", "i", "t", "y">>}
       THEN [ok |-> TRUE, f |-> NonFin(IF neg THEN "-inf" ELSE "inf")]
  ELSE IF d.ok
       THEN [ok |-> TRUE,
             f |-> Fin(Rat((IF neg THEN -1 ELSE 1) * DigitsVal(d.ip \o d.fp),
                           Pow10(Len(d.fp))))]
  ELSE [ok |-> FALSE, f |-> Fin(RZero)]

ParseSigned(neg, b) == ParseUnsigned(neg, LowerStr(b), DecimalForm(b))

ParseFloat(s) ==
  IF s # <<>> /\ s[1] \in {"-", "+"} THEN ParseSigned(s[1] = "-", Tail(s))
  ELSE ParseSigned(FALSE, s)

\* _percent_re = ^\s*(-?\d+(\.\d+)?)\s*%\s*$ on a stripped string: the
\* match's group(1), or <<>> when there is no match
PercentGroup(s) ==
  IF s = <<>> \/ s[Len(s)] # "%" THEN <<>>
  ELSE LET g == RStrip(SubSeq(s, 1, Len(s) - 1))
           b == IF g # <<>> /\ g[1] = "-" THEN Tail(g) ELSE g
           dot == IndexOf(b, ".")
           ip == IF dot = 0 THEN b ELSE SubSeq(b, 1, dot - 1)
           fp == IF dot = 0 THEN <<>> ELSE SubSeq(b, dot + 1, Len(b))
       IN  IF ip # <<>> /\ AllDigits(ip) /\ AllDigits(fp) /\ (dot = 0 \/ fp # <<>>)
           THEN g ELSE <<>>

PLACEHOLDERS ==
  { <<>>, <<"-">>, <<EmDash>>, <<EnDash>>, <<"N", "/", "A">>, <<"N", "A">>,
    <<"n", "a", "n">>, <<"N", "o", "n", "e">> }

\* lines 288-294: the plain float parse, 0.0 on failure
ToNumberPlain(p) == IF p.ok THEN p.f ELSE Fin(RZero)

\* lines 281-286: a percent string, g being the match's group(1)
ToNumberPercent(s, g) ==
  IF g # <<>> THEN Fin(RDiv(ParseFloat(g).f.r, RInt(100)))
  ELSE ToNumberPlain(ParseFloat(DashToMinus(Remove(Remove(s, " "), ","))))

\* lines 277-294 on s = str(x).strip()
ToNumberStr(s) ==
  IF s \in PLACEHOLDERS THEN Fin(RZero) ELSE ToNumberPercent(s, PercentGroup(s))

to_number(x) ==
  IF x.t = "null" THEN Fin(RZero)
  ELSE IF x.t = "int" THEN IntToFloat(x)
  ELSE IF x.t = "float"
       THEN (IF x.k = "nan" THEN Fin(RZero)
             ELSE IF x.k = "fin" THEN Fin(x.r) ELSE NonFin(x.k))
  ELSE ToNumberStr(Strip(PyStr(x)))

\* b not in (0, 0.0, None)
safe_div(a, b) == IF b # RZero THEN RDiv(a, b) ELSE RZero

\* short_label keeping max_len characters before the ellipsis
short_label_keep_max(x, max_len) ==
  LET s == IF x.t = "null" THEN <<>> ELSE Strip(PyStr(x))
  IN  IF Len(s) <= max_len THEN s
      ELSE Prefix(s, max_len) \o <<Ellipsis>>

short_label(x, max_len) ==
  LET s == IF x.t = "null" THEN <<>> ELSE Strip(PyStr(x))
  IN  IF Len(s) <= max_len THEN s
      ELSE Prefix(s, max_len - 1) \o <<Ellipsis>>

\* ----------------------------------------------------------- column names
\* Every column name used in datasets and overrides, in the order sorted()
\* gives str values (code-point order).
NameOrder ==
  <<"ACTUAL PO", "ACTUAL PR", "BU", "BUDGET LINE ITEM #",
     "BUDGET LINE ITEM DESCRIPTION", "Budget", "CATEGORY", "Cost", "Fees",
     "Line", "PROJECT NAME", "PROJECT_NAME", "SELA FEES", "SELA FEES %",
     "TOTAL BUDGET", "TOTAL COST", "VAT %", "VAT AMOUNT", "VENDOR",
     "Vat Rate", "WHT", "X01", "X02", "X03", "X04", "X05", "X06", "X07",
     "X08", "X09", "X10", "X11", "X12", "X13", "X14", "X15", "X16", "X17",
     "X18", "X19", "X20", "X21", "X22", "X23", "X24", "X25", "X26", "X27",
     "X28", "X29", "X30", "X31", "X32", "X33", "X34", "X35", "X36", "X37",
     "X38", "X39", "X40", "X41", "X42", "X43", "X44", "X45", "X46", "X47",
     "X48", "X49", "X50", "X51", "X52", "X53", "X54", "X55", "X56", "X57",
     "X58", "X59", "X60", "X61", "X62", "X63", "X64", "X65" >>

NameRank(n) == CHOOSE i \in 1..Len(NameOrder) : NameOrder[i] = n

\* sorted(list(present)): the names of S in ascending code-point order
SortedNames(S) == SelectSeq(NameOrder, LAMBDA n : n \in S)

VName(n) == [t |-> "name", n |-> n]      \* a JSON string holding a column name or key
VList(items) == [t |-> "list", items |-> items]
VDict(items) == [t |-> "dict", items |-> items]   \* <<key, value>> pairs, insertion order
VAbsent == [t |-> "absent"]                       \* key not in the mapping

\* ---------------------------------------------------------------- defaults
DEFAULT_COLS_0 ==
  "total_cost" :> "TOTAL COST" @@ "sela_fees" :> "SELA FEES" @@ "wht" :> "WHT" @@
  "vat_amount" :> "VAT AMOUNT" @@ "total_budget" :> "TOTAL BUDGET" @@
  "actual_pr" :> "ACTUAL PR" @@ "actual_po" :> "ACTUAL PO" @@ "vat_pct" :> "VAT %" @@
  "sela_pct" :> "SELA FEES %" @@ "line_desc" :> "BUDGET LINE ITEM DESCRIPTION" @@
  "line_no" :> "BUDGET LINE ITEM #" @@ "category" :> "CATEGORY" @@
  "vendor" :> "VENDOR" @@ "project" :> "PROJECT NAME" @@ "bu" :> "BU"

DEFAULT_THRESHOLDS_0 ==
  "top_n" :> VNum(10) @@ "vat_expected_min" :> VFloat("fin", RInt(1000)) @@
  "vat_diff_abs_min" :> VFloat("fin", RInt(5000)) @@
  "vat_diff_pct_min" :> VFloat("fin", Rat(5, 100)) @@ "max_label_len" :> VNum(80)

\* ------------------------------------------------------- config resolution
\* bool(x) is False
Falsy(j) ==
  \/ j.t = "null"
  \/ j.t = "bool" /\ ~j.b
  \/ j.t = "int" /\ j.v = 0
  \/ j.t = "float" /\ j.k = "fin" /\ j.r = RZero
  \/ j.t = "str" /\ j.s = <<>>
  \/ j.t \in {"list", "dict"} /\ j.items = <<>>

\* the stored form of an override value: column names are kept as names
Stored(j) == IF j.t = "name" THEN j.n ELSE j

\* an overlay that accepts only keys the dict already has
RECURSIVE OverlayKnown(_, _)
OverlayKnown(d, pairs) ==
  IF pairs = <<>> THEN d
  ELSE LET k == Head(pairs)[1]
           v == Stored(Head(pairs)[2])
       IN  OverlayKnown([x \in DOMAIN d |-> IF x = k THEN v ELSE d[x]], Tail(pairs))

RECURSIVE Overlay(_, _)
Overlay(d, pairs) ==
  IF pairs = <<>> THEN d
  ELSE LET k == Head(pairs)[1]
           v == Stored(Head(pairs)[2])
       IN  Overlay([x \in DOMAIN d \cup {k} |-> IF x = k THEN v ELSE d[x]], Tail(pairs))

\* an element of an iterable handed to dict.update: a 2-element list is a
\* key/value pair; anything else is rejected (strings inside the list are
\* not enumerated)
PairError(item) ==
  IF item.t # "list" THEN "TypeError"
  ELSE IF Len(item.items) # 2 THEN "ValueError"
  ELSE ""

\* d.update(j): [exc, d]
DictUpdate(d, j) ==
  IF j.t = "dict" THEN [exc |-> "", d |-> Overlay(d, j.items)]
  ELSE IF j.t \in {"null", "bool", "int", "float"} THEN [exc |-> "TypeError", d |-> d]
  ELSE IF j.t \in {"str", "name"}
       THEN [exc |-> IF Falsy(j) THEN "" ELSE "ValueError", d |-> d]
  ELSE IF \E i \in 1..Len(j.items) : PairError(j.items[i]) # ""
       THEN [exc |-> PairError(j.items[CHOOSE i \in 1..Len(j.items) :
                                          /\ PairError(j.items[i]) # ""
                                          /\ \A h \in 1..(i - 1) : PairError(j.items[h]) = ""]),
             d |-> d]
  ELSE [exc |-> "",
        d |-> Overlay(d, [i \in 1..Len(j.items) |->
                            <<j.items[i].items[1].n, j.items[i].items[2]>>])]

\* config.get(key, {}) or {}
Section(config, key) ==
  LET v == IF key = "columns" THEN config.columns ELSE config.thresholds
  IN  IF v.t = "absent" \/ Falsy(v) THEN VDict(<<>>) ELSE v

\* if config:
ConfigTruthy(config) ==
  config.t = "dict" /\ ~(config.columns.t = "absent" /\ config.thresholds.t = "absent")

\* get_cols_and_thresholds without the .copy(): update() on the module-level dicts
get_cols_and_thresholds_in_place(g_cols, g_thr, config) ==
  LET c == IF ConfigTruthy(config) THEN DictUpdate(g_cols, Section(config, "columns"))
           ELSE [exc |-> "", d |-> g_cols]
      t == IF ConfigTruthy(config) /\ c.exc = ""
           THEN DictUpdate(g_thr, Section(config, "thresholds"))
           ELSE [exc |-> "", d |-> g_thr]
  IN  [exc |-> IF c.exc # "" THEN c.exc ELSE t.exc,
       cols |-> c.d, thr |-> t.d,
       DEFAULT_COLS |-> c.d, DEFAULT_THRESHOLDS |-> t.d]

\* get_cols_and_thresholds, given the two module-level dicts as they are when
\* it runs.  The result carries the module-level dicts as it leaves them:
\* .copy() makes cols and thr fresh objects, so update() touches only those.
get_cols_and_thresholds(g_cols, g_thr, config) ==
  LET c == IF ConfigTruthy(config) THEN DictUpdate(g_cols, Section(config, "columns"))
           ELSE [exc |-> "", d |-> g_cols]
      t == IF ConfigTruthy(config) /\ c.exc = ""
           THEN DictUpdate(g_thr, Section(config, "thresholds"))
           ELSE [exc |-> "", d |-> g_thr]
  IN  [exc |-> IF c.exc # "" THEN c.exc ELSE t.exc,
       cols |-> c.d, thr |-> t.d,
       DEFAULT_COLS |-> g_cols, DEFAULT_THRESHOLDS |-> g_thr]

\* ------------------------------------------------------ int() and float()
\* int(x): [exc, v]
PyInt(j) ==
  CASE j.t = "int" -> [exc |-> "", v |-> j.v * Pow10(j.e)]
    [] j.t = "bool" -> [exc |-> "", v |-> IF j.b THEN 1 ELSE 0]
    [] j.t = "float" ->
         IF j.k = "fin" THEN [exc |-> "", v |-> RTrunc(j.r)]
         ELSE [exc |-> IF j.k = "nan" THEN "ValueError" ELSE "OverflowError", v |-> 0]
    [] j.t = "str" ->
         LET s == Strip(j.s)
             signed == s # <<>> /\ s[1] \in {"-", "+"}
             b == IF signed THEN Tail(s) ELSE s
         IN  IF b # <<>> /\ AllDigits(b)
             THEN [exc |-> "", v |-> (IF signed /\ s[1] = "-" THEN -1 ELSE 1) * DigitsVal(b)]
             ELSE [exc |-> "ValueError", v |-> 0]
    [] j.t = "name" -> [exc |-> "ValueError", v |-> 0]
    [] OTHER -> [exc |-> "TypeError", v |-> 0]

\* float(x): a float value or a raised exception
PyFloat(j) ==
  CASE j.t = "int" -> IntToFloat(j)
    [] j.t = "bool" -> Fin(RInt(IF j.b THEN 1 ELSE 0))
    [] j.t = "float" -> IF j.k = "fin" THEN Fin(j.r) ELSE NonFin(j.k)
    [] j.t = "str" -> LET p == ParseFloat(Strip(j.s))
                      IN  IF p.ok THEN p.f ELSE Raise("ValueError")
    [] j.t = "name" -> Raise("ValueError")
    [] OTHER -> Raise("TypeError")

\* a < f and a >= f for a finite a and a float f (every comparison with nan is False)
LtFloat(a, f) == IF f.k = "fin" THEN RLt(a, f.r) ELSE f.k = "inf"
GeFloat(a, f) == IF f.k = "fin" THEN RLe(f.r, a) ELSE f.k = "-inf"

\* ------------------------------------------------------------ rows, dicts
\* r.get(key)
Get(r, key) == IF key \in DOMAIN r THEN r[key] ELSE VNull
\* str(r.get(key, "")).strip()
Label(r, key) == Strip(PyStr(IF key \in DOMAIN r THEN r[key] ELSE VStr(<<>>)))
\* to_number(r.get(key)) where it does not raise
Num(r, key) == to_number(Get(r, key)).r

Keys(rows) == UNION {DOMAIN rows[i] : i \in 1..Len(rows)}

RECURSIVE ColSum(_, _)
ColSum(rows, key) ==
  IF rows = <<>> THEN RZero ELSE RAdd(Num(Head(rows), key), ColSum(Tail(rows), key))

\* out[k] = out.get(k, 0.0) + v on an insertion-ordered dict
Accumulate(out, k, v) ==
  IF \E i \in 1..Len(out) : out[i][1] = k
  THEN [i \in 1..Len(out) |-> IF out[i][1] = k THEN <<k, RAdd(out[i][2], v)>> ELSE out[i]]
  ELSE Append(out, <<k, RAdd(RZero, v)>>)

RECURSIVE GroupFold(_, _, _, _)
GroupFold(out, rows, group_key, value_key) ==
  IF rows = <<>> THEN out
  ELSE GroupFold(Accumulate(out, Label(Head(rows), group_key), Num(Head(rows), value_key)),
                 Tail(rows), group_key, value_key)

group_sum(rows, group_key, value_key) == GroupFold(<<>>, rows, group_key, value_key)

\* sorted(items, key=value, reverse=True) on <<item, value>> pairs: descending,
\* equal values keep their order (the sort is stable, also with reverse=True)
RECURSIVE SortedDesc(_)
SortedDesc(ps) ==
  IF ps = <<>> THEN <<>>
  ELSE LET i == CHOOSE i \in 1..Len(ps) :
                  /\ \A j \in 1..Len(ps) : RLe(ps[j][2], ps[i][2])
                  /\ \A j \in 1..(i - 1) : RLt(ps[j][2], ps[i][2])
       IN  <<ps[i]>> \o SortedDesc(SubSeq(ps, 1, i - 1) \o SubSeq(ps, i + 1, Len(ps)))

\* ------------------------------------------------- required-column check
SAMPLE_LIMIT == 60

\* the check looking at the keys of the first row only
require_keys_in_first_row(rows, required_keys) ==
  LET present == DOMAIN rows[1]
      missing == SelectSeq(required_keys, LAMBDA k : k \notin present)
  IN  IF missing # <<>>
      THEN [exc |-> "HTTPException", status_code |-> 422,
            detail |-> [error |-> "Missing required columns in input rows",
                        missing |-> missing,
                        hint |-> "Fix your headers OR pass config.columns overrides.",
                        present_sample |-> Prefix(SortedNames(present), SAMPLE_LIMIT)]]
      ELSE [exc |-> ""]

require_keys_in_dataset(rows, required_keys) ==
  LET present == Keys(rows)
      missing == SelectSeq(required_keys, LAMBDA k : k \notin present)
  IN  IF missing # <<>>
      THEN [exc |-> "HTTPException", status_code |-> 422,
            detail |-> [error |-> "Missing required columns in input rows",
                        missing |-> missing,
                        hint |-> "Fix your headers OR pass config.columns overrides.",
                        present_sample |-> Prefix(SortedNames(present), SAMPLE_LIMIT)]]
      ELSE [exc |-> ""]

\* ------------------------------------------------------- compute_insights
FLAG_LIMIT == 15
BREAKDOWN_LIMIT == 25

\* the loop of lines 386-390
RECURSIVE RemainingFold(_, _, _, _)
RemainingFold(out, rows, cols, line_label_key) ==
  IF rows = <<>> THEN out
  ELSE LET r == Head(rows)
           tb == Num(r, cols["total_budget"])
           pr == Num(r, cols["actual_pr"])
       IN  RemainingFold(Accumulate(out, Label(r, line_label_key), RMax(RSub(tb, pr), RZero)),
                         Tail(rows), cols, line_label_key)

\* the accumulation without the per-row clamp
RECURSIVE NetFold(_, _, _, _)
NetFold(out, rows, cols, line_label_key) ==
  IF rows = <<>> THEN out
  ELSE LET r == Head(rows)
       IN  NetFold(Accumulate(out, Label(r, line_label_key),
                              RSub(Num(r, cols["total_budget"]), Num(r, cols["actual_pr"]))),
                   Tail(rows), cols, line_label_key)
remaining_by_line_net(rows, cols, line_label_key) ==
  LET net == NetFold(<<>>, rows, cols, line_label_key)
  IN  [i \in 1..Len(net) |-> <<net[i][1], RMax(net[i][2], RZero)>>]

remaining_by_line(rows, cols, line_label_key) == RemainingFold(<<>>, rows, cols, line_label_key)

\* The loop body of lines 397-420, one operator per step; each gives
\* [exc, flags] with no or one flag.
NoFlag == [exc |-> "", flags |-> <<>>]
FlagRaise(e) == [exc |-> e, flags |-> <<>>]

\* lines 413-420: the flag, once int(thr["max_label_len"]) is evaluated
VatAppend(r, line_label_key, vat_pct, expected, actual, diff, diff_pct, ml) ==
  IF ml.exc # "" THEN FlagRaise(ml.exc)
  ELSE [exc |-> "",
        flags |-> << [line_item |-> short_label(Get(r, line_label_key), ml.v),
                      vat_pct |-> vat_pct, expected_vat |-> expected,
                      actual_vat |-> actual, diff |-> diff, diff_pct |-> diff_pct] >>]

\* line 412, right operand of the or
VatTestPct(r, thr, line_label_key, vat_pct, expected, actual, diff, diff_pct, pmin) ==
  IF pmin.exc # "" THEN FlagRaise(pmin.exc)
  ELSE IF ~GeFloat(RAbs(diff_pct), pmin) THEN NoFlag
  ELSE VatAppend(r, line_label_key, vat_pct, expected, actual, diff, diff_pct,
                 PyInt(thr["max_label_len"]))

\* lines 410-412, left operand of the or
VatTestAbs(r, thr, line_label_key, vat_pct, expected, actual, diff, diff_pct, amin) ==
  IF amin.exc # "" THEN FlagRaise(amin.exc)
  ELSE IF GeFloat(RAbs(diff), amin)
       THEN VatAppend(r, line_label_key, vat_pct, expected, actual, diff, diff_pct,
                      PyInt(thr["max_label_len"]))
  ELSE VatTestPct(r, thr, line_label_key, vat_pct, expected, actual, diff, diff_pct,
                  PyFloat(thr["vat_diff_pct_min"]))

\* lines 408-410
VatDiff(r, thr, line_label_key, vat_pct, expected, actual, diff) ==
  VatTestAbs(r, thr, line_label_key, vat_pct, expected, actual, diff,
             safe_div(diff, expected), PyFloat(thr["vat_diff_abs_min"]))

\* lines 402-408
VatExpected(r, cols, thr, line_label_key, vat_pct, expected, actual, emin) ==
  IF emin.exc # "" THEN FlagRaise(emin.exc)
  ELSE IF LtFloat(expected, emin) THEN NoFlag
  ELSE VatDiff(r, thr, line_label_key, vat_pct, expected, actual, RSub(actual, expected))

\* lines 398-404
VatPct(r, cols, thr, line_label_key, vp) ==
  IF vp.exc # "" THEN FlagRaise(vp.exc)
  ELSE IF RLe(vp.r, RZero) THEN NoFlag
  ELSE VatExpected(r, cols, thr, line_label_key, vp.r,
                   RMul(vp.r, RAdd(Num(r, cols["total_cost"]), Num(r, cols["sela_fees"]))),
                   Num(r, cols["vat_amount"]), PyFloat(thr["vat_expected_min"]))

VatRow(r, cols, thr, line_label_key) ==
  VatPct(r, cols, thr, line_label_key, to_number(Get(r, cols["vat_pct"])))

\* the loop of line 397: an exception ends it
RECURSIVE VatScan(_, _, _, _)
VatJoin(h, rest) ==
  [exc |-> rest.exc, flags |-> IF rest.exc # "" THEN <<>> ELSE h.flags \o rest.flags]
VatNext(h, rows, cols, thr, line_label_key) ==
  IF h.exc # "" THEN h ELSE VatJoin(h, VatScan(Tail(rows), cols, thr, line_label_key))
VatScan(rows, cols, thr, line_label_key) ==
  IF rows = <<>> THEN NoFlag
  ELSE VatNext(VatRow(Head(rows), cols, thr, line_label_key), rows, cols, thr, line_label_key)

\* vat_flags.sort(key=abs(diff), reverse=True)
Firsts(ps) == [i \in 1..Len(ps) |-> ps[i][1]]
SortFlags(flags) ==
  Firsts(SortedDesc([i \in 1..Len(flags) |-> <<flags[i], RAbs(flags[i].diff)>>]))

\* lines 422-423
SortThenCut(sc) ==
  IF sc.exc # "" THEN sc
  ELSE [exc |-> "", flags |-> Prefix(SortFlags(sc.flags), FLAG_LIMIT)]

\* the flags cut to 15 before they are sorted
vat_flags_cut_first(rows, cols, thr, line_label_key) ==
  IF cols["vat_pct"] \notin Keys(rows) THEN NoFlag
  ELSE IF VatScan(rows, cols, thr, line_label_key).exc # ""
       THEN VatScan(rows, cols, thr, line_label_key)
  ELSE [exc |-> "",
        flags |-> SortFlags(Prefix(VatScan(rows, cols, thr, line_label_key).flags,
                                   FLAG_LIMIT))]

\* lines 394-423: the scan, then sort by abs(diff) descending and keep 15
vat_flags(rows, cols, thr, line_label_key) ==
  IF cols["vat_pct"] \notin Keys(rows) THEN NoFlag
  ELSE SortThenCut(VatScan(rows, cols, thr, line_label_key))

\* the first top_n groups in insertion order, unsorted
top_of_unsorted(by_line, top_n) == Prefix(by_line, top_n)

\* sorted(by_line.items(), key=value, reverse=True)[:top_n]
top_of(by_line, top_n) == Prefix(SortedDesc(by_line), top_n)

count_zero(rows, key) == Cardinality({i \in 1..Len(rows) : Num(rows[i], key) = RZero})
MISSING_CELLS == {VNull, VStr(<<>>), VStr(<<"-">>), VStr(<<EmDash>>), VStr(<<EnDash>>)}
count_missing(rows, key) == Cardinality({i \in 1..Len(rows) : Get(rows[i], key) \in MISSING_CELLS})

\* one entry of breakdowns: non-empty labels, by value descending, first 25
breakdown(rows, group_key, value_key) ==
  Prefix(SortedDesc(SelectSeq(group_sum(rows, group_key, value_key), LAMBDA kv : kv[1] # <<>>)),
         BREAKDOWN_LIMIT)

\* compute_insights: [exc, ...].  exc = "" carries the report (bullets and
\* chart_suggestions repeat the kpis and top drivers as text and series and
\* are left out), exc = "HTTPException" the 422 of the required-column
\* check, any other exc is the exception that leaves the function.
compute_insights(rows, cols, thr) ==
  LET required == << cols["total_cost"], cols["sela_fees"], cols["vat_amount"],
                     cols["total_budget"], cols["actual_pr"], cols["actual_po"] >>
      chk == require_keys_in_dataset(rows, required)
      dataset_keys == Keys(rows)
      project_key == IF cols["project"] \notin dataset_keys /\ "PROJECT_NAME" \in dataset_keys
                     THEN "PROJECT_NAME" ELSE cols["project"]
      line_label_key == IF cols["line_desc"] \in dataset_keys
                        THEN cols["line_desc"] ELSE cols["line_no"]
      summed == {cols["total_cost"], cols["sela_fees"], cols["vat_amount"],
                 cols["total_budget"], cols["actual_pr"], cols["actual_po"]}
                \cup (IF cols["wht"] \in dataset_keys THEN {cols["wht"]} ELSE {})
      sums_raise == \E i \in 1..Len(rows) : \E k \in summed : to_number(Get(rows[i], k)).exc # ""
      base_cost == ColSum(rows, cols["total_cost"])
      sela_fees == ColSum(rows, cols["sela_fees"])
      wht == IF cols["wht"] \in dataset_keys THEN ColSum(rows, cols["wht"]) ELSE RZero
      vat == ColSum(rows, cols["vat_amount"])
      total_budget == ColSum(rows, cols["total_budget"])
      actual_pr == ColSum(rows, cols["actual_pr"])
      actual_po == ColSum(rows, cols["actual_po"])
      remaining_pr == RMax(RSub(total_budget, actual_pr), RZero)
      remaining_po == RMax(RSub(total_budget, actual_po), RZero)
      add_ons == RMax(RSub(total_budget, base_cost), RZero)
      uplift_pct == safe_div(add_ons, base_cost)
      top_n == PyInt(thr["top_n"])
      by_line_budget == group_sum(rows, line_label_key, cols["total_budget"])
      vf == vat_flags(rows, cols, thr, line_label_key)
      bnames == (IF cols["category"] \in dataset_keys THEN {"by_category_total_budget"} ELSE {})
                \cup (IF cols["vendor"] \in dataset_keys THEN {"by_vendor_total_budget"} ELSE {})
                \cup (IF project_key \in dataset_keys THEN {"by_project_total_budget"} ELSE {})
  IN  IF chk.exc # "" THEN chk
      ELSE IF sums_raise THEN [exc |-> "OverflowError"]
      ELSE IF top_n.exc # "" THEN [exc |-> top_n.exc]
      ELSE IF vf.exc # "" THEN [exc |-> vf.exc]
      ELSE
       [exc |-> "",
        meta |-> [input_rows |-> Len(rows),
                  line_item_label_used |-> line_label_key,
                  columns_used |-> cols,
                  project_resolved |-> cols["project"],
                  project_used |-> project_key,
                  thresholds |-> thr],
        kpis |-> [base_cost |-> base_cost, sela_fees |-> sela_fees, wht |-> wht, vat |-> vat,
                  total_budget |-> total_budget, actual_pr |-> actual_pr,
                  remaining_pr |-> remaining_pr, actual_po |-> actual_po,
                  remaining_po |-> remaining_po, add_ons |-> add_ons,
                  uplift_pct |-> uplift_pct],
        top |-> [top_drivers_total_budget |-> top_of(by_line_budget, top_n.v),
                 top_remaining_pr |-> top_of(remaining_by_line(rows, cols, line_label_key), top_n.v)],
        breakdowns |->
          [b \in bnames |->
             breakdown(rows,
                       CASE b = "by_category_total_budget" -> cols["category"]
                         [] b = "by_vendor_total_budget" -> cols["vendor"]
                         [] b = "by_project_total_budget" -> project_key,
                       cols["total_budget"])],
        flags |-> [vat_basis_flags |-> vf.flags,
                   data_quality |->
                     [rows_total |-> Len(rows),
                      zero_total_budget_rows |-> count_zero(rows, cols["total_budget"]),
                      zero_actual_pr_rows |-> count_zero(rows, cols["actual_pr"]),
                      zero_actual_po_rows |-> count_zero(rows, cols["actual_po"]),
                      missing_line_item_label_rows |-> count_missing(rows, line_label_key),
                      missing_vat_pct_rows |->
                        IF cols["vat_pct"] \in dataset_keys
                        THEN <<count_missing(rows, cols["vat_pct"])>> ELSE <<>>]]]

\* ------------------------------------------------------------------ state
VARIABLES
  DEFAULT_COLS,         \* the module-level dict of line 232
  DEFAULT_THRESHOLDS,   \* the module-level dict of line 250
  pc,                   \* per worker thread: idle | resolve | compute | done
  req,                  \* per worker: the InsightsRequest being served
  cols, thr,            \* per worker: the locals of insights()
  resp,                 \* per worker: what insights() hands back
  call, ret             \* a direct call of a helper and its result

vars == <<DEFAULT_COLS, DEFAULT_THRESHOLDS, pc, req, cols, thr, resp, call, ret>>

NumWorkers == 2
Workers == 1..NumWorkers

NoReq == [rows |-> <<>>, config |-> VNull]
NoResp == [kind |-> "none"]
NoCall == [fn |-> "none"]
NoRet == [kind |-> "none"]

\* config values
NoConfig == VNull
Config(c, t) == [t |-> "dict", columns |-> c, thresholds |-> t]
Request(rows, config) == [rows |-> rows, config |-> config]

\* ---------------------------------------------------------- the endpoint
\* line 562, outside the try block: an exception here leaves insights()
Resolve(w) ==
  /\ pc[w] = "resolve"
  /\ LET r == get_cols_and_thresholds(DEFAULT_COLS, DEFAULT_THRESHOLDS, req[w].config)
     IN  /\ DEFAULT_COLS' = r.DEFAULT_COLS
         /\ DEFAULT_THRESHOLDS' = r.DEFAULT_THRESHOLDS
         /\ IF r.exc # ""
            THEN /\ resp' = [resp EXCEPT ![w] = [kind |-> "unhandled", exc |-> r.exc]]
                 /\ pc' = [pc EXCEPT ![w] = "done"]
                 /\ UNCHANGED <<cols, thr>>
            ELSE /\ cols' = [cols EXCEPT ![w] = r.cols]
                 /\ thr' = [thr EXCEPT ![w] = r.thr]
                 /\ pc' = [pc EXCEPT ![w] = "compute"]
                 /\ UNCHANGED resp
  /\ UNCHANGED <<req, call, ret>>

\* lines 563-568: what the try block makes of compute_insights' result r
Wrapped(r) ==
  IF r.exc = "" THEN [kind |-> "report", status |-> 200, body |-> r]
  ELSE IF r.exc = "HTTPException"
       THEN [kind |-> "http", status |-> r.status_code, detail |-> r.detail]
  ELSE [kind |-> "http", status |-> 500,
        detail |-> [error |-> "Failed to compute insights", message |-> r.exc]]

Outcome(rows, c, t) == Wrapped(compute_insights(rows, c, t))

Compute(w) ==
  /\ pc[w] = "compute"
  /\ resp' = [resp EXCEPT ![w] = Outcome(req[w].rows, cols[w], thr[w])]
  /\ pc' = [pc EXCEPT ![w] = "done"]
  /\ UNCHANGED <<DEFAULT_COLS, DEFAULT_THRESHOLDS, req, cols, thr, call, ret>>

\* the response is sent; the thread is free again
Finish(w) ==
  /\ pc[w] = "done"
  /\ pc' = [pc EXCEPT ![w] = "idle"]
  /\ req' = [req EXCEPT ![w] = NoReq]
  /\ cols' = [cols EXCEPT ![w] = <<>>]
  /\ thr' = [thr EXCEPT ![w] = <<>>]
  /\ resp' = [resp EXCEPT ![w] = NoResp]
  /\ UNCHANGED <<DEFAULT_COLS, DEFAULT_THRESHOLDS, call, ret>>

\* what insights() hands back for a request when the module-level dicts
\* hold gc and gt
insights(gc, gt, request) ==
  LET r == get_cols_and_thresholds(gc, gt, request.config)
  IN  IF r.exc # "" THEN [kind |-> "unhandled", exc |-> r.exc]
      ELSE Outcome(request.rows, r.cols, r.thr)

\* ================================================================ inputs
REQUIRED_DEFAULT ==
  {"TOTAL COST", "SELA FEES", "VAT AMOUNT", "TOTAL BUDGET", "ACTUAL PR", "ACTUAL PO"}

\* a row holding the six required columns (zero), overlaid with the given cells
BaseRow == [n \in REQUIRED_DEFAULT |-> VNum(0)]
With(r, n, v) == [x \in DOMAIN r \cup {n} |-> IF x = n THEN v ELSE r[x]]

HugeInt == VInt(1, DBL_MAX_10_EXP + 1)

\* the row of the end-to-end example
ExampleRow ==
  "TOTAL COST" :> VStr(<<"1", ",", "0", "0", "0">>) @@ "SELA FEES" :> VStr(<<"5", "0">>) @@ "WHT" :> VStr(<<"0">>) @@
  "VAT AMOUNT" :> VStr(<<"1", "5", "7", ".", "5">>) @@ "TOTAL BUDGET" :> VStr(<<"1", "2", "0", "7", ".", "5">>) @@
  "ACTUAL PR" :> VStr(<<"1", "0", "0", "0">>) @@ "ACTUAL PO" :> VStr(<<"9", "0", "0">>) @@
  "VAT %" :> VStr(<<"1", "5", "%">>)

\* ---- requests served concurrently
ServeDatasets ==
  { <<ExampleRow>>,
    <<[n \in (REQUIRED_DEFAULT \ {"TOTAL COST"}) \cup {"Cost"} |-> VNum(1)]>>,
    <<ExampleRow, With(BaseRow, "TOTAL BUDGET", HugeInt)>> }

Pair(k, v) == VList(<<VName(k), v>>)

ColumnsByDict == Config(VDict(<< <<"total_cost", VName("Cost")>> >>), VAbsent)
UnknownKey ==
  Config(VDict(<< <<"cost_center", VName("Cost")>> >>), VList(<<Pair("top_n", VStr(<<"2">>))>>))
ColumnsByPairs ==
  Config(VList(<<Pair("total_cost", VName("Cost")), Pair("region", VName("Line"))>>),
         VDict(<< <<"top_n", VStr(<<"a", "b", "c">>)>> >>))

ServeConfigs ==
  { NoConfig,
    Config(VAbsent, VAbsent),
    Config(VNull, VDict(<< <<"top_n", VNum(1)>> >>)),
    ColumnsByDict, UnknownKey, ColumnsByPairs,
    Config(VNum(5), VAbsent),
    Config(VBool(TRUE), VAbsent),
    Config(VStr(<<"a", "b">>), VAbsent),
    Config(VList(<<VNum(1)>>), VAbsent),
    Config(VAbsent, VNum(7)),
    Config(VAbsent, VList(<<VList(<<VName("top_n")>>)>>)) }

ServeRequests ==
  {Request(<<ExampleRow>>, c) : c \in ServeConfigs}
  \cup {Request(d, c) : d \in ServeDatasets \ {<<ExampleRow>>},
                        c \in {NoConfig, ColumnsByDict, ColumnsByPairs}}

Receive(w) ==
  /\ pc[w] = "idle"
  /\ \E r \in ServeRequests : req' = [req EXCEPT ![w] = r]
  /\ pc' = [pc EXCEPT ![w] = "resolve"]
  /\ UNCHANGED <<DEFAULT_COLS, DEFAULT_THRESHOLDS, cols, thr, resp, call, ret>>

Init ==
  /\ DEFAULT_COLS = DEFAULT_COLS_0
  /\ DEFAULT_THRESHOLDS = DEFAULT_THRESHOLDS_0
  /\ pc = [w \in Workers |-> "idle"]
  /\ req = [w \in Workers |-> NoReq]
  /\ cols = [w \in Workers |-> <<>>]
  /\ thr = [w \in Workers |-> <<>>]
  /\ resp = [w \in Workers |-> NoResp]
  /\ call = NoCall
  /\ ret = NoRet

Next == \E w \in Workers : Receive(w) \/ Resolve(w) \/ Compute(w) \/ Finish(w)

Spec == Init /\ [][Next]_vars

\* ============================================= direct calls of the helpers
Alphabet == {"1", "5", ".", ",", "-", "%", " ", "N", "A", "n", "a", "/", EmDash}

RECURSIVE StringsUpTo(_)
StringsUpTo(n) ==
  IF n = 0 THEN {<<>>}
  ELSE LET shorter == StringsUpTo(n - 1)
       IN  shorter \cup {Append(s, c) : s \in {x \in shorter : Len(x) = n - 1}, c \in Alphabet}

SpecExamples ==
  { <<"1", "2", "%">>, <<"1", ",", "2", "3", "4", ".", "5", "0">>, <<" ", " ", "7", " ">>, <<"a", "b", "c">>,
    <<"-", "1", " ", "%">>, <<"+", "5">>, <<"-", "n", "a", "n">>, <<"i", "n", "f">>,
    <<"-", "I", "N", "F">>, <<EnDash, "2", ".", "5">>, <<"1", ".", "5", ".", "1">> }

NumberCells ==
  {VNull, VBool(TRUE), VBool(FALSE), HugeInt, VInt(-3, DBL_MAX_10_EXP + 1), VInt(0, DBL_MAX_10_EXP + 1)}
  \cup {VNum(i) : i \in {-7, 0, 1, 1000}}
  \cup {VFloat("fin", Rat(5, 2)), VFloat("fin", RZero), VFloat("nan", RZero),
        VFloat("inf", RZero), VFloat("-inf", RZero)}
  \cup {VStr(s) : s \in StringsUpTo(MaxStrLen) \cup PLACEHOLDERS \cup SpecExamples}

LabelAlphabet == {"a", "b", " "}
RECURSIVE LabelsUpTo(_)
LabelsUpTo(n) ==
  IF n = 0 THEN {<<>>}
  ELSE LET shorter == LabelsUpTo(n - 1)
       IN  shorter \cup {Append(s, c) : s \in {x \in shorter : Len(x) = n - 1}, c \in LabelAlphabet}

LabelCells ==
  {VNull, VBool(TRUE), VNum(12345), VStr(<<"a", "b", "c", "d", "e", "f">>)}
  \cup {VStr(s) : s \in LabelsUpTo(MaxLabelLen)}

InitHelpers ==
  /\ DEFAULT_COLS = DEFAULT_COLS_0
  /\ DEFAULT_THRESHOLDS = DEFAULT_THRESHOLDS_0
  /\ pc = [w \in Workers |-> "idle"]
  /\ req = [w \in Workers |-> NoReq]
  /\ cols = [w \in Workers |-> <<>>]
  /\ thr = [w \in Workers |-> <<>>]
  /\ resp = [w \in Workers |-> NoResp]
  /\ ret = NoRet
  /\ \/ \E x \in NumberCells : call = [fn |-> "to_number", x |-> x]
     \/ \E x \in LabelCells : \E m \in (-MaxLenArg)..MaxLenArg :
          call = [fn |-> "short_label", x |-> x, max_len |-> m]

CallToNumber ==
  /\ call.fn = "to_number"
  /\ ret = NoRet
  /\ LET f == to_number(call.x)
     IN  ret' = IF f.exc # "" THEN [kind |-> "raised", exc |-> f.exc]
                ELSE [kind |-> "returned", k |-> f.k, r |-> f.r]
  /\ UNCHANGED <<DEFAULT_COLS, DEFAULT_THRESHOLDS, pc, req, cols, thr, resp, call>>

CallShortLabel ==
  /\ call.fn = "short_label"
  /\ ret = NoRet
  /\ ret' = [kind |-> "returned", s |-> short_label(call.x, call.max_len)]
  /\ UNCHANGED <<DEFAULT_COLS, DEFAULT_THRESHOLDS, pc, req, cols, thr, resp, call>>

NextHelpers == CallToNumber \/ CallShortLabel

SpecHelpers == InitHelpers /\ [][NextHelpers]_vars

\* ===================================== one request, datasets in families
MaxExtra == 62        \* most columns beside the required ones in a row
MaxRows == 3          \* most rows of a ranking dataset
MaxVatRows == 2       \* most freely chosen rows of a VAT dataset
PadRows == 15         \* copies of the padding row around them

OneRequest(requests) ==
  /\ DEFAULT_COLS = DEFAULT_COLS_0
  /\ DEFAULT_THRESHOLDS = DEFAULT_THRESHOLDS_0
  /\ pc = [w \in Workers |-> IF w = 1 THEN "resolve" ELSE "idle"]
  /\ \E r \in requests : req = [w \in Workers |-> IF w = 1 THEN r ELSE NoReq]
  /\ cols = [w \in Workers |-> <<>>]
  /\ thr = [w \in Workers |-> <<>>]
  /\ resp = [w \in Workers |-> NoResp]
  /\ call = NoCall
  /\ ret = NoRet

NextOne == Resolve(1) \/ Compute(1) \/ Finish(1)

RECURSIVE SeqsUpTo(_, _)
\* the non-empty sequences over S of length at most n
SeqsUpTo(S, n) ==
  IF n = 0 THEN {}
  ELSE LET shorter == SeqsUpTo(S, n - 1)
       IN  {<<x>> : x \in S} \cup {Append(q, x) : q \in shorter, x \in S}

Thresholds(pairs) == Config(VAbsent, VDict(pairs))

\* ---- columns present and absent
FirstExtra == NameRank("X01")
Extra(n) == {NameOrder[FirstExtra + i - 1] : i \in 1..n}

ColumnsRow(names, cell) == [n \in names |-> cell]

ColumnDatasets ==
  { <<ColumnsRow(held \cup Extra(n), cell)>> :
      held \in SUBSET (REQUIRED_DEFAULT \cup {"Cost"}), n \in {0, 2, MaxExtra},
      cell \in {VNum(1), HugeInt} }
  \cup
  { <<ColumnsRow(a, VNum(1)), ColumnsRow(b \cup Extra(n), VNum(2))>> :
      a \in SUBSET {"TOTAL COST", "SELA FEES", "VAT AMOUNT"},
      b \in SUBSET {"TOTAL BUDGET", "ACTUAL PR", "ACTUAL PO", "TOTAL COST"},
      n \in {1, MaxExtra} }

ColumnConfigs ==
  { NoConfig,
    Config(VDict(<< <<"total_cost", VName("Cost")>>, <<"sela_fees", VName("Cost")>> >>), VAbsent),
    Config(VDict(<< <<"actual_po", VName("Fees")>> >>),
           VDict(<< <<"top_n", VStr(<<"a", "b", "c">>)>> >>)) }

ColumnRequests == {Request(d, c) : d \in ColumnDatasets, c \in ColumnConfigs}

InitColumns == OneRequest(ColumnRequests)
SpecColumns == InitColumns /\ [][NextOne]_vars

\* ---- rankings by line item
LINE_DESC == "BUDGET LINE ITEM DESCRIPTION"
RankLabels == {VStr(<<"A">>), VStr(<<" ", "A">>), VStr(<<"B">>)}
RankAmounts == {<<100, 0>>, <<100, 150>>, <<-50, 0>>}

RankRow(label, tb, pr) ==
  With(With(With(BaseRow, LINE_DESC, label), "TOTAL BUDGET", VNum(tb)), "ACTUAL PR", VNum(pr))

RankRows == {RankRow(l, a[1], a[2]) : l \in RankLabels, a \in RankAmounts}

FiveGroups ==
  << RankRow(VStr(<<"A">>), 300, 0), RankRow(VStr(<<"B">>), 500, 600),
     RankRow(VStr(<<"C">>), 100, 0), RankRow(VStr(<<"D">>), 500, 0),
     RankRow(VStr(<<"E">>), 200, 50), RankRow(VStr(<<"C">>), 450, 0) >>

\* no description column: the line-number column, absent too, labels every row ""
NoLabels == <<With(BaseRow, "TOTAL BUDGET", VNum(70)), With(BaseRow, "TOTAL BUDGET", VNum(30))>>

RankDatasets == SeqsUpTo(RankRows, MaxRows) \cup {FiveGroups, NoLabels}

RankConfigs ==
  { NoConfig } \cup
  { Thresholds(<< <<"top_n", v>> >>) :
      v \in {VNum(0), VNum(1), VNum(2), VNum(-1), VNum(-2), VStr(<<"2">>),
             VFloat("fin", Rat(5, 2)), VNull} }

RankRequests == {Request(d, c) : d \in RankDatasets, c \in RankConfigs}

InitRanking == OneRequest(RankRequests)
SpecRanking == InitRanking /\ [][NextOne]_vars

\* ---- VAT-basis flags
PCT15 == VStr(<<"1", "5", "%">>)
VatRowOf(label, vat_pct, total_cost, vat_amount) ==
  With(With(With(With(BaseRow, LINE_DESC, label), "VAT %", vat_pct),
            "TOTAL COST", VNum(total_cost)), "VAT AMOUNT", VNum(vat_amount))

LongLabel == VStr(<<"L", "i", "g", "h", "t", "i", "n", "g">>)

VatRows ==
  { VatRowOf(LongLabel, PCT15, 10000, 8000),               \* diff 6500
    VatRowOf(VStr(<<"T">>), PCT15, 10000, 7000),           \* diff 5500, as the padding row
    VatRowOf(VStr(<<"P">>), PCT15, 10000, 1600),           \* diff 100, 6.7 %
    VatRowOf(VStr(<<"N">>), PCT15, 10000, 1400),           \* diff -100
    VatRowOf(VStr(<<"Q">>), PCT15, 10000, 1510),           \* diff 10, 0.67 %
    VatRowOf(VStr(<<"S">>), PCT15, 1000, 8000),            \* expected 150
    VatRowOf(VStr(<<"Z">>), VNum(0), 10000, 8000),         \* no VAT percent
    VatRowOf(VNull, VStr(<<"-", "5", "%">>), 10000, 8000), \* negative VAT percent
    With(BaseRow, "VAT AMOUNT", VNum(9000)) }              \* no VAT % cell

PadRow == VatRowOf(VStr(<<"p", "a", "d">>), PCT15, 10000, 7000)
Pad(n) == [i \in 1..n |-> PadRow]

VatDatasets ==
  { Pad(a) \o d \o Pad(b) :
      d \in SeqsUpTo(VatRows, MaxVatRows),
      a \in {0, PadRows}, b \in {0, PadRows \div 2, PadRows} }
  \cup {<<ExampleRow>>, <<With(BaseRow, "VAT %", HugeInt)>>}

VatConfigs ==
  { NoConfig,
    Thresholds(<< <<"vat_expected_min", VNum(0)>>, <<"vat_diff_abs_min", VStr(<<"5", "0">>)>>,
                  <<"vat_diff_pct_min", VFloat("fin", Rat(1, 2))>>, <<"max_label_len", VNum(3)>> >>),
    Thresholds(<< <<"vat_diff_abs_min", VNum(6000)>>, <<"vat_diff_pct_min", VStr(<<"a">>)>> >>),
    Thresholds(<< <<"vat_diff_pct_min", VNum(0)>>, <<"max_label_len", VNum(-2)>> >>),
    Thresholds(<< <<"vat_expected_min", VNull>>, <<"max_label_len", VNull>> >>),
    Config(VDict(<< <<"vat_pct", VName("Vat Rate")>> >>), VAbsent) }

VatRequests == {Request(d, c) : d \in VatDatasets, c \in VatConfigs}

InitVat == OneRequest(VatRequests)
SpecVat == InitVat /\ [][NextOne]_vars

\* ================================================================ claims
Range(q) == {q[i] : i \in 1..Len(q)}
Min(a, b) == IF a < b THEN a ELSE b
Max(a, b) == IF a < b THEN b ELSE a
Served(w) == pc[w] = "done"
Reported(w) == pc[w] = "done" /\ resp[w].kind = "report"

\* ---- C1
REQUIRED_LOGICAL ==
  {"total_cost", "sela_fees", "vat_amount", "total_budget", "actual_pr", "actual_po"}
AbsentRequired(w) == {cols[w][k] : k \in REQUIRED_LOGICAL} \ Keys(req[w].rows)

\* q is the first n names of S in ascending order
FirstSorted(q, S, n) ==
  /\ Len(q) = Min(n, Cardinality(S))
  /\ Range(q) \subseteq S
  /\ \A i \in 1..Len(q) : \A j \in 1..Len(q) : i < j => NameRank(q[i]) < NameRank(q[j])
  /\ \A x \in S \ Range(q) : \A i \in 1..Len(q) : NameRank(q[i]) < NameRank(x)

\* C1: when a required physical column is absent from the union of the rows'
\* keys, the request ends in the 422 missing-columns error, whose missing
\* list holds exactly the absent required names and whose present_sample is
\* the first 60 of the sorted present names; no report is returned, whatever
\* the aggregation would have met.
C1_MissingColumns ==
  \A w \in Workers :
    (Served(w) /\ resp[w].kind # "unhandled" /\ AbsentRequired(w) # {}) =>
      /\ resp[w].kind = "http"
      /\ resp[w].status = 422
      /\ Range(resp[w].detail.missing) = AbsentRequired(w)
      /\ FirstSorted(resp[w].detail.present_sample, Keys(req[w].rows), 60)

\* a 422 for a dataset of more than 60 columns whose cells would overflow the sums
C1_Witness ==
  /\ Served(1) /\ resp[1].kind = "http" /\ resp[1].status = 422
  /\ Cardinality(Keys(req[1].rows)) > 60
  /\ Len(resp[1].detail.present_sample) = 60
  /\ \E n \in Keys(req[1].rows) : req[1].rows[1][n] = HugeInt
  /\ Cardinality(AbsentRequired(1)) >= 2

\* ---- C2
\* C2: to_number never fails and returns a float for every cell value, and
\* 0.0 for every placeholder.
C2_ToNumberNeverFails ==
  (call.fn = "to_number" /\ ret.kind # "none") =>
    /\ ret.kind = "returned"
    /\ (call.x = VNull \/ (call.x.t = "str" /\ call.x.s \in PLACEHOLDERS)) =>
         (ret.k = "fin" /\ ret.r = RZero)

\* ---- C3
\* C3: every failure of an insights request reaches the caller either as the
\* 422 missing-columns error or as the structured 500 payload with error and
\* message; in no other form.
C3_FailuresStructured ==
  \A w \in Workers :
    (Served(w) /\ resp[w].kind # "report") =>
      /\ resp[w].kind = "http"
      /\ \/ resp[w].status = 422 /\ resp[w].detail.missing # <<>>
         \/ resp[w].status = 500 /\ {"error", "message"} \subseteq DOMAIN resp[w].detail

\* ---- C4
\* C4: config resolution completes without failing for every config the
\* request model accepts.
C4_ResolutionNeverFails ==
  \A w \in Workers : pc[w] \in {"compute", "done"} => resp[w].kind # "unhandled"

\* ---- C5
\* C5: no state is shared across requests: the module-level defaults never
\* change, and what a request gets is what it would get as the only request
\* ever served.
C5_NoSharedState ==
  /\ DEFAULT_COLS = DEFAULT_COLS_0
  /\ DEFAULT_THRESHOLDS = DEFAULT_THRESHOLDS_0
  /\ \A w \in Workers :
       Served(w) => resp[w] = insights(DEFAULT_COLS_0, DEFAULT_THRESHOLDS_0, req[w])

\* two requests in flight at once, one with overrides and one without
C5_Witness ==
  /\ Served(1) /\ Served(2)
  /\ cols[1] # DEFAULT_COLS_0 /\ thr[1] # DEFAULT_THRESHOLDS_0
  /\ req[2].config = NoConfig /\ resp[2].kind = "report"

\* ---- C6
\* the keys of the caller's columns override, read off the request
OverrideKeys(config) ==
  IF config.t # "dict" \/ config.columns.t \notin {"dict", "list"} THEN {}
  ELSE IF config.columns.t = "dict"
       THEN {config.columns.items[i][1] : i \in 1..Len(config.columns.items)}
  ELSE {config.columns.items[i].items[1].n : i \in 1..Len(config.columns.items)}

\* C6 as stated: the resolved column map has the fixed 14 logical names and
\* resolution never adds one.
C6_FixedAt14 ==
  \A w \in Workers :
    pc[w] = "compute" =>
      /\ Cardinality(DOMAIN cols[w]) = 14
      /\ DOMAIN cols[w] \subseteq DOMAIN DEFAULT_COLS_0

\* C6 amended: the resolved column map holds the 15 built-in logical names,
\* none is ever removed, and its keys are exactly those 15 and the keys of
\* the caller's columns override.
C6_DefaultsPlusOverrides ==
  /\ Cardinality(DOMAIN DEFAULT_COLS) = 15
  /\ \A w \in Workers :
       pc[w] = "compute" =>
         DOMAIN cols[w] = DOMAIN DEFAULT_COLS_0 \cup OverrideKeys(req[w].config)

\* a resolved map that stores an override key outside the built-in names
C6_Witness ==
  /\ pc[1] = "compute"
  /\ "cost_center" \in DOMAIN cols[1]
  /\ Cardinality(DOMAIN cols[1]) = 16

\* ---- C7
LineKey(w) == resp[w].body.meta.line_item_label_used
LineLabels(w) == {Label(req[w].rows[i], LineKey(w)) : i \in 1..Len(req[w].rows)}
\* the summed total budget of the rows labelled l
LineTotal(w, l) ==
  ColSum(SelectSeq(req[w].rows, LAMBDA r : Label(r, LineKey(w)) = l), cols[w]["total_budget"])
FirstRow(w, l) ==
  CHOOSE i \in 1..Len(req[w].rows) :
    /\ Label(req[w].rows[i], LineKey(w)) = l
    /\ \A j \in 1..(i - 1) : Label(req[w].rows[j], LineKey(w)) # l
TopDrivers(w) == resp[w].body.top.top_drivers_total_budget
ConfiguredTopN(w) == PyInt(thr[w]["top_n"]).v

\* top is a ranking of line labels by summed total budget: descending, the
\* groups left out no larger than those kept, equal sums in order of first
\* appearance
Ranked(w, top) ==
  /\ \A i \in 1..Len(top) : top[i][1] \in LineLabels(w) /\ top[i][2] = LineTotal(w, top[i][1])
  /\ \A i \in 1..Len(top) : \A j \in 1..Len(top) :
       i < j => /\ top[i][1] # top[j][1]
                /\ RLe(top[j][2], top[i][2])
                /\ top[i][2] = top[j][2] => FirstRow(w, top[i][1]) < FirstRow(w, top[j][1])
  /\ \A l \in LineLabels(w) \ {top[i][1] : i \in 1..Len(top)} : \A i \in 1..Len(top) :
       /\ RLe(LineTotal(w, l), top[i][2])
       /\ LineTotal(w, l) = top[i][2] => FirstRow(w, top[i][1]) < FirstRow(w, l)

VatFlags(w) == resp[w].body.flags.vat_basis_flags
\* what the flag of row r would record
RowFacts(w, r) ==
  LET vat_pct == Num(r, cols[w]["vat_pct"])
      expected == RMul(vat_pct, RAdd(Num(r, cols[w]["total_cost"]), Num(r, cols[w]["sela_fees"])))
      actual == Num(r, cols[w]["vat_amount"])
  IN  [vat_pct |-> vat_pct, expected_vat |-> expected, actual_vat |-> actual,
       diff |-> RSub(actual, expected),
       diff_pct |-> IF expected = RZero THEN RZero ELSE RDiv(RSub(actual, expected), expected)]
Numbers(f) ==
  [vat_pct |-> f.vat_pct, expected_vat |-> f.expected_vat, actual_vat |-> f.actual_vat,
   diff |-> f.diff, diff_pct |-> f.diff_pct]
\* vat_pct > 0, expected >= vat_expected_min, and abs(diff) >= vat_diff_abs_min
\* or abs(diff_pct) >= vat_diff_pct_min
Qualifies(x, emin, amin, pmin) ==
  /\ RLt(RZero, x.vat_pct)
  /\ emin.exc = "" /\ GeFloat(x.expected_vat, emin)
  /\ amin.exc = ""
  /\ \/ GeFloat(RAbs(x.diff), amin)
     \/ pmin.exc = "" /\ GeFloat(RAbs(x.diff_pct), pmin)
QualifyingRows(w) ==
  LET emin == PyFloat(thr[w]["vat_expected_min"])
      amin == PyFloat(thr[w]["vat_diff_abs_min"])
      pmin == PyFloat(thr[w]["vat_diff_pct_min"])
  IN  {i \in 1..Len(req[w].rows) : Qualifies(RowFacts(w, req[w].rows[i]), emin, amin, pmin)}

Trimmed(x) == IF x = VNull THEN <<>> ELSE Strip(PyStr(x))

\* C9 as stated: for every max_len the result is the trimmed string when it
\* fits, else its first max_len - 1 characters and an ellipsis, and never
\* has more than max_len characters.
C9_NeverLonger ==
  (call.fn = "short_label" /\ ret.kind = "returned") =>
    LET s == Trimmed(call.x)
        m == call.max_len
    IN  /\ Len(s) <= m => ret.s = s
        /\ Len(s) > m => ret.s = SubSeq(s, 1, m - 1) \o <<Ellipsis>>
        /\ Len(ret.s) <= m

\* C9 amended: the above for max_len >= 1; for max_len <= 0 a string longer
\* than max_len loses its last 1 - max_len characters (all, if it has fewer)
\* and gets the ellipsis, which leaves more than max_len characters.
C9_ShortLabel ==
  (call.fn = "short_label" /\ ret.kind = "returned") =>
    LET s == Trimmed(call.x)
        m == call.max_len
    IN  /\ Len(s) <= m => ret.s = s
        /\ (Len(s) > m /\ m >= 1) => ret.s = SubSeq(s, 1, m - 1) \o <<Ellipsis>>
        /\ m >= 1 => Len(ret.s) <= m
        /\ (Len(s) > m /\ m <= 0) =>
             /\ ret.s = SubSeq(s, 1, Max(Len(s) + m - 1, 0)) \o <<Ellipsis>>
             /\ Len(ret.s) > m

\* the example of the spec: short_label("abcdef", 4) is "abc" and the ellipsis
C9_Witness ==
  /\ call.fn = "short_label" /\ ret.kind = "returned"
  /\ call.x = VStr(<<"a", "b", "c", "d", "e", "f">>) /\ call.max_len = 4
  /\ ret.s = <<"a", "b", "c", Ellipsis>>

\* ---- C10
RECURSIVE SumValues(_)
SumValues(ps) == IF ps = <<>> THEN RZero ELSE RAdd(Head(ps)[2], SumValues(Tail(ps)))
OverBudget(w, r) == RLt(Num(r, cols[w]["total_budget"]), Num(r, cols[w]["actual_pr"]))
\* max(total budget - actual PR, 0) of one row, and its sum over the rows labelled l
RowRemaining(w, r) ==
  LET d == RSub(Num(r, cols[w]["total_budget"]), Num(r, cols[w]["actual_pr"]))
  IN  IF RLt(d, RZero) THEN RZero ELSE d
LineRemaining(w, l) ==
  LET own == SelectSeq(req[w].rows, LAMBDA r : Label(r, LineKey(w)) = l)
  IN  SumValues([i \in 1..Len(own) |-> <<l, RowRemaining(w, own[i])>>])
\* the per-line values of all labels: the whole top_remaining_pr ranking
AllLines(w) ==
  top_of(remaining_by_line(req[w].rows, cols[w], LineKey(w)), Cardinality(LineLabels(w)))

====
